---- MODULE Spec2Model ----
(***************************************************************************)
(* Model of the retrieval-and-generation engine of Discord-Rag-Chatbot     *)
(* (src/rag.js) and of its bootstrap (src/bot.js).                         *)
(*                                                                         *)
(* Strings are sequences of tokens.  Questions, keywords and provider      *)
(* responses are spelled character by character; a fixed literal of the    *)
(* program (an apology sentence, a header) is one token.  A vector is      *)
(* represented by its length and its origin; an L2 distance and a quality  *)
(* score are integers in tenths (1.0 is 10, 2.5 is 25, 0.5 is 5).          *)
(***************************************************************************)
EXTENDS Naturals, Integers, Sequences, FiniteSets, TLC

(* ------------------------------ bounds --------------------------------- *)
MaxFiles == 1      \* files in the data directory
MaxChunks == 5     \* chunks produced by the whole directory
MaxFaults == 1     \* embedding calls the provider answers abnormally, per run
NumTexts == 4      \* distinct chunk texts a document is made of
MaxRuns == 3       \* runs of equal characters a text given to chunkText is made of
MaxDim == 66       \* largest dim given to fallbackEmbeddingSync in its own runs
MaxBatchDocs == 12 \* chunks of the largest document of the runs of several batches
MaxShortRun == 2    \* characters of the longest run of the texts chunkText is followed on
MaxSize == 3        \* largest chunkSize chunkText is followed with
MaxIterations == 6  \* iterations the loop of chunkText is followed for
MaxConcChunks == 2 \* chunks of the largest document of the runs with two calls of queryRAG

(* -------------------------- program constants -------------------------- *)
FallbackDim == 768         \* getEmbedding: fallbackEmbeddingSync(text, 768)
batchSize == 10            \* initRAG: const batchSize = 10
ProviderDim == 384         \* length of the vectors of the embedding model 'all-minilm'
SkillsK == 5               \* queryRAG: index.search(queryEmbedding, 5)
DefaultK == 5              \* queryRAG(question, k = 5)
PenaltyTenths == 5         \* qualityScore += 0.5
MinWords == 5              \* wordCount < 5
MaxWords == 200            \* wordCount > 200
LenientTenths == 25        \* relevanceThreshold 2.5
StrictTenths == 10         \* relevanceThreshold 1.0
DefaultChunkSize == 1000   \* chunkText(text, chunkSize = 1000, overlap = 200)
DefaultOverlap == 200      \* chunkText(text, chunkSize = 1000, overlap = 200)
BreakWindow == 100         \* chunkText: (nextPeriod - end) < 100
DigestLen == 32            \* fallbackEmbeddingSync: h.length of a sha256 digest
ByteMax == 255             \* fallbackEmbeddingSync: (h[b] / 255.0) * 2 - 1
maxContextLength == 800    \* queryRAG: let maxContextLength = 800
SeparatorLen == 7          \* queryRAG: '\n\n---\n\n'.length

(* ------------------------------ strings -------------------------------- *)
UpperSeq == <<"A","B","C","D","E","F","G","H","I","J","K","L","M",
              "N","O","P","Q","R","S","T","U","V","W","X","Y","Z">>
LowerSeq == <<"a","b","c","d","e","f","g","h","i","j","k","l","m",
              "n","o","p","q","r","s","t","u","v","w","x","y","z">>

\* String.prototype.toLowerCase, one character
LowerChar(c) ==
    IF \E i \in 1..Len(UpperSeq) : UpperSeq[i] = c
    THEN LowerSeq[CHOOSE i \in 1..Len(UpperSeq) : UpperSeq[i] = c]
    ELSE c

\* String.prototype.toLowerCase
toLowerCase(s) == [i \in 1..Len(s) |-> LowerChar(s[i])]

\* String.prototype.includes
includes(s, kw) ==
    \E i \in 1..(Len(s) - Len(kw) + 1) : SubSeq(s, i, i + Len(kw) - 1) = kw

skillKeywords ==
    { <<"s","k","i","l","l">>,
      <<"t","e","c","h","n","o","l","o","g","y">>,
      <<"t","e","c","h"," ","s","t","a","c","k">>,
      <<"p","r","o","g","r","a","m","m","i","n","g">>,
      <<"l","a","n","g","u","a","g","e">>,
      <<"f","r","a","m","e","w","o","r","k">>,
      <<"t","o","o","l">>,
      <<"e","x","p","e","r","t","i","s","e">>,
      <<"p","r","o","f","i","c","i","e","n","t">>,
      <<"e","x","p","e","r","i","e","n","c","e"," ","w","i","t","h">>,
      <<"t","e","c","h","n","o","l","o","g","i","e","s">>,
      <<"t","o","o","l","s">>,
      <<"l","a","n","g","u","a","g","e","s">>,
      <<"w","h","a","t"," ","c","a","n"," ","y","o","u"," ","d","o">>,
      <<"w","h","a","t"," ","d","o"," ","y","o","u"," ","k","n","o","w">>,
      <<"w","h","a","t"," ","a","r","e"," ","y","o","u"," ","g","o","o","d"," ","a","t">>,
      <<"w","h","a","t"," ","a","r","e"," ","y","o","u","r"," ","s","k","i","l","l","s">>,
      <<"w","h","a","t"," ","a","r","e"," ","y","o","u"," ","e","x","p","e","r","i","e","n","c","e","d"," ","i","n">>,
      <<"t","e","c","h","n","i","c","a","l"," ","s","k","i","l","l","s">>,
      <<"t","e","c","h","n","i","c","a","l"," ","e","x","p","e","r","t","i","s","e">>,
      <<"p","r","o","f","i","c","i","e","n","c","y">>,
      <<"k","n","o","w","l","e","d","g","e"," ","o","f">> }

resumeKeywords ==
    { <<"r","e","s","u","m","e">>,
      <<"c","v">>,
      <<"e","x","p","e","r","i","e","n","c","e">>,
      <<"s","k","i","l","l">>,
      <<"b","i","o">>,
      <<"a","b","o","u","t"," ","m","e">> }

\* isSkillsQuestion(question)
isSkillsQuestion(question) ==
    \E keyword \in skillKeywords : includes(toLowerCase(question), keyword)

\* queryRAG: const isResumeQuery = lowerQuestion.includes('resume') || ...
isResumeQuery(question) ==
    \E keyword \in resumeKeywords : includes(toLowerCase(question), keyword)

\* queryRAG: const relevanceThreshold = isResumeQuery ? 2.5 : 1.0
relevanceThreshold(question) ==
    IF isResumeQuery(question) THEN LenientTenths ELSE StrictTenths

\* The questions put to the engine: "Hi", "My CV", "SKILLS", "Tools".
Questions ==
    { <<"H","i">>,
      <<"M","y"," ","C","V">>,
      <<"S","K","I","L","L","S">>,
      <<"T","o","o","l","s">> }

\* Fixed literals of the program, one token each.
GenApology == <<"I'm having trouble generating a response right now. Please try again later.">>
TooLongApology == <<"I'm taking too long to process your request. [...]">>
TroubleApology == <<"I'm having trouble processing your request right now. [...]">>
ResumeTrouble == <<"I had trouble processing the resume. Please try asking something more specific.">>
NotInitialized == <<"RAG system not initialized. Call initRAG() first.">>
SkillsHeader == <<"Here are the skills and technologies mentioned in the resume:", "\n", "\n">>

IsSpace(c) == c \in {" ", "\n"}

RECURSIVE TrimLeft(_)
TrimLeft(s) ==
    IF s # <<>> /\ IsSpace(Head(s)) THEN TrimLeft(Tail(s)) ELSE s

RECURSIVE TrimRight(_)
TrimRight(s) ==
    IF s # <<>> /\ IsSpace(s[Len(s)]) THEN TrimRight(SubSeq(s, 1, Len(s) - 1)) ELSE s

\* String.prototype.trim
trim(s) == TrimRight(TrimLeft(s))

\* String.prototype.split('\n')
RECURSIVE SplitLines(_, _)
SplitLines(s, cur) ==
    IF s = <<>> THEN <<cur>>
    ELSE IF Head(s) = "\n" THEN <<cur>> \o SplitLines(Tail(s), <<>>)
    ELSE SplitLines(Tail(s), Append(cur, Head(s)))

\* line.replace(/^[-•*]\s*/, '')
RECURSIVE DropSpaces(_)
DropSpaces(s) == IF s # <<>> /\ IsSpace(Head(s)) THEN DropSpaces(Tail(s)) ELSE s

StripBullet(line) ==
    IF line # <<>> /\ Head(line) \in {"-", "*"} THEN DropSpaces(Tail(line)) ELSE line

\* Array.prototype.join('\n')
RECURSIVE JoinLines(_)
JoinLines(ls) ==
    IF ls = <<>> THEN <<>>
    ELSE IF Len(ls) = 1 THEN ls[1]
    ELSE ls[1] \o <<"\n">> \o JoinLines(Tail(ls))

\* queryRAG: the clean-up of the skills response
cleanedSkills(skills) ==
    LET lines == SplitLines(skills, <<>>)
        NonBlank(l) == Len(trim(l)) > 0
        kept == SelectSeq(lines, NonBlank)
    IN JoinLines([i \in 1..Len(kept) |-> trim(StripBullet(kept[i]))])

(* ------------------------------ vectors -------------------------------- *)
\* fallbackEmbeddingSync(text, dim): dim values derived from sha256(text|counter)
fallbackEmbeddingSync(text, dim) == [len |-> dim, origin |-> "fallback"]

\* What the embedding provider can answer to one request:
\*   "vector"    200 with {embedding: [..ProviderDim numbers..]}
\*   "empty"     200 with {embedding: []}
\*   "nofield"   200 with a body whose embedding field is missing or falsy
\*   "badjson"   200 with a body response.json() rejects
\*   "http"      a non-2xx status
\*   "transport" fetch rejects
EmbedResponses == {"vector", "empty", "nofield", "badjson", "http", "transport"}

\* getEmbedding(text)
getEmbedding(text, resp) ==
    CASE resp = "vector" -> [len |-> ProviderDim, origin |-> "provider"]
      [] resp = "empty" -> [len |-> 0, origin |-> "provider"]
      [] OTHER -> fallbackEmbeddingSync(text, FallbackDim)

(* --------------------------- data directory ---------------------------- *)
\* A file of ./data:
\*   "other"       its name does not end in .txt
\*   "unreadable"  a .txt entry fs.statSync or fs.readFileSync throws on
\*   "blank"       a .txt file whose content trims to nothing
\*   "noise"       a .txt file cleanText reduces to ''
\*   "doc"         a .txt file chunkText splits into n >= 1 chunks
JunkFiles == { [kind |-> k, n |-> 0] : k \in {"other", "unreadable", "blank", "noise"} }
DocFiles == { [kind |-> "doc", n |-> n] : n \in 1..MaxChunks }
Files == JunkFiles \cup DocFiles

RECURSIVE SumChunks(_)
SumChunks(fs) == IF fs = <<>> THEN 0 ELSE Head(fs).n + SumChunks(Tail(fs))

DataDirs ==
    { d \in UNION { [1..m -> Files] : m \in 0..MaxFiles } : SumChunks(d) <= MaxChunks }

\* The chunks of a document of n chunks: chunk j carries text ((j-1) mod NumTexts)+1,
\* so a long or repeated document yields chunks of equal text.
docChunks(n) == [j \in 1..n |-> ((j - 1) % NumTexts) + 1]

\* text.split(/\s+/).length of each chunk text
wordCount(text) ==
    CASE text = 1 -> 4
      [] text = 2 -> 5
      [] text = 3 -> 201
      [] text = 4 -> 200
      [] OTHER -> 50

\* text.length of each chunk text
charCount(text) ==
    CASE text = 1 -> 40
      [] text = 2 -> 60
      [] text = 3 -> 1005
      [] text = 4 -> 1000
      [] OTHER -> 300

\* initRAG: the marker put before the content of a file whose name holds
\* 'resume' or 'cv', cleanedContent = `[RESUME_START]\n${cleanedContent}\n[RESUME_END]`
ResumeStart == <<"[","R","E","S","U","M","E","_","S","T","A","R","T","]">>

\* queryRAG: the string contextText.includes('[RESUME]') looks for
ResumeTag == <<"[","R","E","S","U","M","E","]">>

\* The first characters of each chunk text, the rest of it being plain words.
\* Text 1 is the first chunk of a file that initRAG wrapped in its markers;
\* text 4 is a chunk of a document that spells [RESUME] itself.
chunkHead(text) ==
    CASE text = 1 -> ResumeStart \o <<"\n", "J", "o", "e">>
      [] text = 4 -> ResumeTag \o <<" ", "J", "o", "e">>
      [] OTHER -> <<"J", "o", "e">>

\* initRAG: files.filter(f => f.toLowerCase().endsWith('.txt'))
txtFiles(fs) == SelectSeq(fs, LAMBDA f : f.kind # "other")

\* initRAG: the loop over the files, docs.push(...chunks)
RECURSIVE fileChunks(_)
fileChunks(fs) ==
    IF fs = <<>> THEN <<>>
    ELSE (IF Head(fs).kind = "doc" THEN docChunks(Head(fs).n) ELSE <<>>)
         \o fileChunks(Tail(fs))

(* ------------------------------- state --------------------------------- *)
VARIABLES
    files,        \* initRAG: let files = fs.readdirSync(files), <<>> outside its scope
    docs,         \* let docs = []
    embeddings,   \* let embeddings = []
    index,        \* let index
    validDocs,    \* let validDocs = []
    ipc,          \* initRAG: "idle", "embedding", "returnedEarly" (no .txt file),
                  \* "returned" (at its end), "threw"
    boot,         \* main of bot.js: "starting", "serving", "exited"
    batch,        \* initRAG: the requests of the current batch, Pending or the
                  \* embedding the request resolved to
    faults,       \* abnormal answers of the embedding provider so far
    qpc,          \* queryRAG: the await it is suspended at, "idle" or "done"
    question,     \* queryRAG: question
    contexts,     \* queryRAG: const contexts, as <<[text, score, originalScore, wordCount], ...>>
    found,        \* queryRAG, normal path: const { labels, distances }, the hits of the search
    gens,         \* the generation requests of the query, in order of issue
    qlog,         \* the embedding requests and index searches of the query
    qres,         \* what queryRAG gave its caller
    calledAt,     \* where initRAG stood when queryRAG was called
    parked,       \* a second call of queryRAG in progress, suspended at an await:
                  \* its question, locals, requests and result
    chunkInput,   \* chunkText: text, as a sequence of runs
    chunkOutput,  \* chunkText: whether it has run, and chunks, as spans of text
    calls,        \* the last two calls of fallbackEmbeddingSync, with their results
    window        \* chunkText: chunkSize, overlap and let start, when its loop is
                  \* followed one iteration at a time

ivars == <<files, docs, embeddings, index, validDocs, ipc, boot>>
qvars == <<qpc, question, contexts, found, gens, qlog, qres, calledAt>>
fvars == <<chunkInput, chunkOutput, calls, parked, window>>
vars == <<files, docs, embeddings, index, validDocs, ipc, boot, batch, faults,
          qpc, question, contexts, found, gens, qlog, qres, calledAt, parked,
          chunkInput, chunkOutput, calls, window>>

NoIndex == [exists |-> FALSE, dim |-> 0, ntotal |-> 0]

\* An embedding request of the current batch that has not resolved
Pending == [len |-> -1, origin |-> "pending"]

\* initRAG: the filter of the failed embeddings, positions kept
validPositions(embs) == { i \in 1..Len(embs) : embs[i].len > 0 }

RECURSIVE keepPositions(_, _, _)
keepPositions(s, keep, i) ==
    IF i > Len(s) THEN <<>>
    ELSE (IF i \in keep THEN <<s[i]>> ELSE <<>>) \o keepPositions(s, keep, i + 1)

RECURSIVE flatLength(_)
flatLength(vs) == IF vs = <<>> THEN 0 ELSE Head(vs).len + flatLength(Tail(vs))

\* Mutant of buildIndex: the check validEmbeddings.length === 0 is missing.
buildIndexUnchecked(ds, embs) ==
    LET keep == validPositions(embs)
        validEmbeddings == keepPositions(embs, keep, 1)
        vdocs == keepPositions(ds, keep, 1)
    IN IF validEmbeddings = <<>>
       THEN [validDocs |-> vdocs, index |-> NoIndex, threw |-> FALSE]
       ELSE [validDocs |-> vdocs,
             index |-> [exists |-> TRUE, dim |-> validEmbeddings[1].len,
                        ntotal |-> flatLength(validEmbeddings) \div validEmbeddings[1].len],
             threw |-> flatLength(validEmbeddings) % validEmbeddings[1].len # 0]

\* initRAG, from "Filter out failed embeddings" to its end: the values of
\* validDocs and index it leaves and whether it throws.
buildIndex(ds, embs) ==
    LET keep == validPositions(embs)
        validEmbeddings == keepPositions(embs, keep, 1)
        vdocs == keepPositions(ds, keep, 1)
        dim == validEmbeddings[1].len
        flat == flatLength(validEmbeddings)
    IN IF validEmbeddings = <<>>
       THEN [validDocs |-> vdocs, index |-> NoIndex, threw |-> TRUE]
       ELSE IF flat % dim # 0
       THEN [validDocs |-> vdocs,
             index |-> [exists |-> TRUE, dim |-> dim, ntotal |-> 0],
             threw |-> TRUE]
       ELSE [validDocs |-> vdocs,
             index |-> [exists |-> TRUE, dim |-> dim, ntotal |-> flat \div dim],
             threw |-> FALSE]

(* ------------------------------ the index ------------------------------ *)
\* The distances of one search: the stored vector of label j lies at
\* base + gap * ((j + rot) mod ntotal) tenths from the query vector.
Profiles == [base : {5, 15, 20, 24}, gap : {0, 2}, rot : {0, 1}]

distance(prof, label, ntotal) == prof.base + prof.gap * ((label + prof.rot) % ntotal)

\* A stable ascending sort of <<key, value>> pairs by key, as Array.prototype.sort
\* with the comparator (a, b) => a.key - b.key
RECURSIVE insertPair(_, _)
insertPair(x, s) ==
    IF s = <<>> THEN <<x>>
    ELSE IF x[1] < Head(s)[1] THEN <<x>> \o s
    ELSE <<Head(s)>> \o insertPair(x, Tail(s))

RECURSIVE sortPairs(_)
sortPairs(s) ==
    IF s = <<>> THEN <<>>
    ELSE insertPair(s[Len(s)], sortPairs(SubSeq(s, 1, Len(s) - 1)))

\* index.search(x, k) of a query vector of length len.  On an index that was
\* never assigned the call is a TypeError.  faiss-node's IndexFlatL2.search
\* rejects k > ntotal and a length that is no multiple of the dimension, runs one
\* query per dimension-sized slice of x (none for an empty x), and gives the k
\* nearest labels of a query by ascending distance.  hits are those of the first
\* query.
search(idx, len, k, prof) ==
    IF ~idx.exists \/ k > idx.ntotal \/ len % idx.dim # 0
    THEN [threw |-> TRUE, hits |-> <<>>]
    ELSE IF len = 0
    THEN [threw |-> FALSE, hits |-> <<>>]
    ELSE LET all == [j \in 1..idx.ntotal |->
                        [label |-> j - 1, dist |-> distance(prof, j - 1, idx.ntotal)]]
             sorted == sortPairs([j \in 1..Len(all) |-> <<all[j].dist, all[j]>>])
         IN [threw |-> FALSE, hits |-> [j \in 1..k |-> sorted[j][2]]]

\* The result object of search holds either one array per query (nested) or
\* one flat array; queryRAG reads
\*   Array.isArray(labels[0]) ? labels[0] : [labels[0]]
\* and so sees every hit of the first query, or its first hit alone.
Shapes == {"nested", "flat"}

seenHits(hits, shape) ==
    IF shape = "nested" \/ hits = <<>> THEN hits ELSE <<hits[1]>>

(* ----------------------------- generation ------------------------------ *)
\* What the generation provider can answer to one request: a 200 whose
\* response field is a string (body), or
\*   "nofield"   200 with a body that has no response field
\*   "nonstring" 200 with a response field that is truthy and no string
\*   "badjson"   200 with a body response.json() rejects
\*   "http"      a non-2xx status
\*   "transport" fetch rejects
\*   "abort"     no answer before the 30 s timer of generateResponse aborts the
\*               request
ResponseBodies == { <<" ", "a", "\n">>, <<" ">>, <<>> }

GenResponses ==
    { [kind |-> "text", body |-> b] : b \in ResponseBodies }
    \cup { [kind |-> k, body |-> <<>>] :
             k \in {"nofield", "nonstring", "badjson", "http", "transport", "abort"} }

\* Mutant of generateResponse: the catch is missing, a failure rejects.
generateResponseUncaught(context, prompt, resp) ==
    IF resp.kind = "text" /\ resp.body # <<>>
    THEN [threw |-> FALSE, value |-> trim(resp.body)]
    ELSE [threw |-> TRUE, value |-> <<>>]

\* generateResponse(context, question): what the call settles to, a text it
\* resolves to (threw is FALSE) or an error it rejects with
generateResponse(context, prompt, resp) ==
    IF resp.kind = "text" /\ resp.body # <<>>
    THEN [threw |-> FALSE, value |-> trim(resp.body)]
    ELSE [threw |-> FALSE, value |-> GenApology]

\* queryRAG: contexts.map(ctx => ctx.text).join('\n\n---\n\n').length
RECURSIVE joinedLength(_)
joinedLength(ts) ==
    IF ts = <<>> THEN 0
    ELSE charCount(Head(ts))
         + (IF Len(ts) > 1 THEN SeparatorLen + joinedLength(Tail(ts)) ELSE 0)

\* queryRAG: contextText.includes('[RESUME]').  The plain words of a chunk and
\* the separator hold no bracket, so the string lies in the joined text when it
\* lies in the first characters of one of the chunks.
recognized(ts) == \E i \in 1..Len(ts) : includes(chunkHead(ts[i]), ResumeTag)

\* A context string as generateResponse receives it: the number of its
\* characters that are taken from contextText, and the marker appended or
\* inserted: "none", "truncated" for '... [truncated]', "middle" for
\* '... [middle truncated] ...'
asIs(ts) == [chars |-> joinedLength(ts), marker |-> "none"]

\* queryRAG: let limitedContext, from contextText to the call of generateResponse
limitedContext(ts) ==
    LET halfLength == maxContextLength \div 2
    IN IF recognized(ts) /\ joinedLength(ts) > maxContextLength
       THEN [chars |-> halfLength + halfLength, marker |-> "middle"]
       ELSE IF joinedLength(ts) > maxContextLength
       THEN [chars |-> maxContextLength, marker |-> "truncated"]
       ELSE asIs(ts)

\* A generation request of a query: the context argument (chunk texts, <<>> for
\* ""; handed is the string itself), the question argument ("question", or "skillsPrompt" or "extractPrompt"
\* over the chunk texts inPrompt), the answer of the provider and what
\* generateResponse settled to.  Until the provider has answered, resp.kind is
\*   "pending"  await fetch(...) has not resolved, the 30 s timer is armed
\*   "headers"  fetch resolved with a response, clearTimeout(timeoutId) has run,
\*              the body is being read
\*   "stalled"  as "headers", and the provider never completes the body
\*   "raced"    as "headers" or "stalled", and the race timer of queryRAG has
\*              rejected first: queryRAG has gone on, generateResponse has not
\*              settled
request(context, prompt, inPrompt) ==
    [context |-> context, handed |-> asIs(context),
     prompt |-> prompt, inPrompt |-> inPrompt,
     resp |-> [kind |-> "pending", body |-> <<>>],
     result |-> [threw |-> FALSE, value |-> <<>>]]

settle(gs, resp, result) ==
    [gs EXCEPT ![Len(gs)].resp = resp, ![Len(gs)].result = result]

\* The answers that can end a request in stage g.resp.kind: before the headers
\* fetch rejects (transport error, or abort by the timer); after them
\* response.ok, response.text(), response.json() and data.response decide, and
\* no timer is left to abort
answers(g, resp) ==
    IF g.resp.kind = "pending"
    THEN resp.kind \in {"transport", "abort"}
    ELSE g.resp.kind = "headers" /\ resp.kind # "abort"

(* ------------------------------- actions ------------------------------- *)
Min(a, b) == IF a < b THEN a ELSE b

NoResult == [kind |-> "none", value |-> <<>>]

\* The locals of a call of queryRAG that has not started
NoCall ==
    [qpc |-> "idle", question |-> <<>>, contexts |-> <<>>, found |-> <<>>,
     gens |-> <<>>, qlog |-> <<>>, qres |-> NoResult, calledAt |-> "idle"]

\* The module of rag.js is loaded and no function has been called.
InitEngine ==
    /\ docs = <<>>
    /\ embeddings = <<>>
    /\ index = NoIndex
    /\ validDocs = <<>>
    /\ ipc = "idle"
    /\ boot = "starting"
    /\ batch = <<>>
    /\ faults = 0
    /\ qpc = "idle"
    /\ question = <<>>
    /\ contexts = <<>>
    /\ found = <<>>
    /\ gens = <<>>
    /\ qlog = <<>>
    /\ qres = NoResult
    /\ calledAt = "idle"
    /\ parked = NoCall

\* chunkText(text): the default parameters, let start = 0
DefaultWindow == [chunkSize |-> DefaultChunkSize, overlap |-> DefaultOverlap, start |-> 0]

InitPure ==
    /\ chunkInput = <<>>
    /\ chunkOutput = [done |-> FALSE, chunks |-> <<>>]
    /\ calls = <<>>
    /\ window = DefaultWindow

Init ==
    /\ files \in DataDirs
    /\ InitEngine
    /\ InitPure

\* An embedding request is answered by resp; an abnormal answer is counted.
Answered(resp) ==
    /\ resp = "vector" \/ faults < MaxFaults
    /\ faults' = IF resp = "vector" THEN faults ELSE faults + 1

\* initRAG ends: what it leaves in validDocs and index, and main of bot.js,
\* which awaits it, logs in when it returns and exits when it throws.
Finish(b) ==
    /\ validDocs' = b.validDocs
    /\ index' = b.index
    /\ ipc' = IF b.threw THEN "threw" ELSE "returned"
    /\ boot' = IF b.threw THEN "exited" ELSE "serving"

\* Mutant of nextBatch: every remaining chunk is requested at once.
nextBatchUnbounded(ds, i) == [j \in 1..(Len(ds) - i) |-> Pending]

\* initRAG: docs.slice(i, i + batchSize) mapped to its embedding requests, all
\* of them issued before the await of Promise.all
nextBatch(ds, i) == [j \in 1..Min(batchSize, Len(ds) - i) |-> Pending]

\* main calls initRAG: from its start (the files of ./data are read) to its
\* first await, the requests of the first batch being issued.  Without .txt
\* files it returns at once; with .txt files that yield no chunk the batch loop
\* is empty and it runs on to its end.
InitRAG_Start ==
    /\ ipc = "idle"
    /\ LET txts == txtFiles(files)
           ds == docs \o fileChunks(txts)
       IN IF txts = <<>>
          THEN /\ ipc' = "returnedEarly"
               /\ boot' = "serving"
               /\ UNCHANGED <<docs, embeddings, index, validDocs, batch>>
          ELSE /\ docs' = ds
               /\ embeddings' = <<>>
               /\ IF ds = <<>>
                  THEN /\ Finish(buildIndex(ds, <<>>))
                       /\ UNCHANGED batch
                  ELSE /\ ipc' = "embedding"
                       /\ batch' = nextBatch(ds, 0)
                       /\ UNCHANGED <<index, validDocs, boot>>
    /\ files' = <<>>
    /\ UNCHANGED faults
    /\ UNCHANGED qvars
    /\ UNCHANGED fvars

\* initRAG: request j of the current batch resolves, in any order.  The last one
\* of a batch to resolve resumes the loop: embeddings.push(...batchEmbeddings),
\* in the order of the chunks, and the requests of the next batch; the last one
\* of the last batch runs initRAG to its end.
InitRAG_Embed(j, resp) ==
    /\ ipc = "embedding"
    /\ j \in 1..Len(batch)
    /\ batch[j] = Pending
    /\ Answered(resp)
    /\ LET i == Len(embeddings)
           nb == [batch EXCEPT ![j] = getEmbedding(docs[i + j], resp)]
           embs == embeddings \o nb
       IN IF \E n \in 1..Len(nb) : nb[n] = Pending
          THEN /\ batch' = nb
               /\ UNCHANGED <<embeddings, index, validDocs, ipc, boot>>
          ELSE /\ embeddings' = embs
               /\ IF Len(embs) < Len(docs)
                  THEN /\ batch' = nextBatch(docs, Len(embs))
                       /\ UNCHANGED <<index, validDocs, ipc, boot>>
                  ELSE /\ batch' = <<>>
                       /\ Finish(buildIndex(docs, embs))
    /\ UNCHANGED <<files, docs>>
    /\ UNCHANGED qvars
    /\ UNCHANGED fvars

\* Mutant of initialized: the guard is missing.
initializedUnguarded == TRUE

\* queryRAG: the negation of (!index || !validDocs || validDocs.length === 0)
initialized == index.exists /\ Len(validDocs) > 0

embedEvent(what) == [op |-> "embed", what |-> what, k |-> 0, threw |-> FALSE]
searchEvent(what, k, threw) == [op |-> "search", what |-> what, k |-> k, threw |-> threw]

\* A caller calls queryRAG(question): the guard, and on to the first await.
QueryRAG_Start(q) ==
    /\ qpc = "idle"
    /\ question' = q
    /\ calledAt' = ipc
    /\ IF ~initialized
       THEN /\ qpc' = "done"
            /\ qres' = [kind |-> "threw", value |-> NotInitialized]
            /\ qlog' = <<>>
       ELSE /\ qpc' = IF isSkillsQuestion(q) THEN "skillsEmbedding" ELSE "embedding"
            /\ qlog' = <<embedEvent(IF isSkillsQuestion(q) THEN "canned" ELSE "question")>>
            /\ qres' = NoResult
    /\ UNCHANGED <<contexts, found, gens>>
    /\ UNCHANGED <<faults, batch>>
    /\ UNCHANGED ivars
    /\ UNCHANGED fvars

\* queryRAG, skills path: the chunks of the hits, de-duplicated by text
RECURSIVE relevantChunks(_, _, _)
relevantChunks(hits, vdocs, seen) ==
    IF hits = <<>> THEN <<>>
    ELSE LET idx == Head(hits).label
         IN IF idx < Len(vdocs) /\ vdocs[idx + 1] \notin seen
            THEN <<vdocs[idx + 1]>>
                 \o relevantChunks(Tail(hits), vdocs, seen \cup {vdocs[idx + 1]})
            ELSE relevantChunks(Tail(hits), vdocs, seen)

\* queryRAG, skills path: getEmbedding("technical skills and technologies")
\* resolves; the search, and on to generateResponse("", skillsPrompt).  An error
\* of the search is caught and the normal path starts.
SkillsEmbedResolve(resp, prof, shape) ==
    /\ qpc = "skillsEmbedding"
    /\ Answered(resp)
    /\ LET vec == getEmbedding("canned", resp)
           r == search(index, vec.len, SkillsK, prof)
           chunks == relevantChunks(seenHits(r.hits, shape), validDocs, {})
           contextText == IF chunks # <<>> THEN chunks ELSE validDocs
       IN IF r.threw
          THEN /\ qpc' = "embedding"
               /\ qlog' = qlog \o <<searchEvent("canned", SkillsK, TRUE), embedEvent("question")>>
               /\ UNCHANGED gens
          ELSE /\ qpc' = "skillsGenerating"
               /\ qlog' = Append(qlog, searchEvent("canned", SkillsK, FALSE))
               /\ gens' = Append(gens, request(<<>>, "skillsPrompt", contextText))
    /\ UNCHANGED <<question, contexts, found, qres, calledAt, batch>>
    /\ UNCHANGED ivars
    /\ UNCHANGED fvars

\* queryRAG, skills path: generateResponse resolves; the clean-up and the
\* return.  An error is caught and the normal path starts.
SkillsGenResolve(resp) ==
    /\ qpc = "skillsGenerating"
    /\ answers(gens[Len(gens)], resp)
    /\ LET r == generateResponse(<<>>, "skillsPrompt", resp)
       IN /\ gens' = settle(gens, resp, r)
          /\ IF r.threw
             THEN /\ qpc' = "embedding"
                  /\ qlog' = Append(qlog, embedEvent("question"))
                  /\ UNCHANGED qres
             ELSE /\ qpc' = "done"
                  /\ qres' = [kind |-> "returned",
                              value |-> SkillsHeader \o cleanedSkills(r.value)]
                  /\ UNCHANGED qlog
    /\ UNCHANGED <<question, contexts, found, calledAt, faults, batch>>
    /\ UNCHANGED ivars
    /\ UNCHANGED fvars

\* Mutant of qualityScore: <= and >= for < and >.
qualityScoreInclusive(text, dist) ==
    IF wordCount(text) <= MinWords \/ wordCount(text) >= MaxWords
    THEN dist + PenaltyTenths
    ELSE dist

\* queryRAG: the quality score of a hit
qualityScore(text, dist) ==
    IF wordCount(text) < MinWords \/ wordCount(text) > MaxWords
    THEN dist + PenaltyTenths
    ELSE dist

\* queryRAG: const contexts = contextIndices.map(...).filter(...).sort(...).slice(0, k)
selectContexts(hits, vdocs, k) ==
    LET valid == SelectSeq(hits, LAMBDA h : h.label < Len(vdocs))
        scored == [i \in 1..Len(valid) |->
                     [text |-> vdocs[valid[i].label + 1],
                      score |-> qualityScore(vdocs[valid[i].label + 1], valid[i].dist),
                      originalScore |-> valid[i].dist,
                      wordCount |-> wordCount(vdocs[valid[i].label + 1])]]
        sorted == sortPairs([i \in 1..Len(scored) |-> <<scored[i].score, scored[i]>>])
    IN [i \in 1..Min(k, Len(sorted)) |-> sorted[i][2]]

\* Mutant of accepted: >= for >.
acceptedExclusive(ctxs, q) == ~(ctxs[1].score >= relevanceThreshold(q))

\* queryRAG: if (contexts[0].score > relevanceThreshold) is not taken
accepted(ctxs, q) == ~(ctxs[1].score > relevanceThreshold(q))

texts(ctxs) == [i \in 1..Len(ctxs) |-> ctxs[i].text]

\* Mutant of OuterCatch: the outer try has no catch, the error reaches the caller.
OuterCatchRethrows(error, gs) ==
    /\ qpc' = "done"
    /\ qres' = [kind |-> "threw", value |-> <<"Error">>]
    /\ gens' = gs

\* queryRAG, catch (error) of the outer try, given the generation requests gs so
\* far: its sentence for a time-out, or generateResponse("", question)
OuterCatch(error, gs) ==
    IF error.timedOut
    THEN /\ qpc' = "done"
         /\ qres' = [kind |-> "returned", value |-> TooLongApology]
         /\ gens' = gs
    ELSE /\ qpc' = "fallbackGenerating"
         /\ gens' = Append(gs, request(<<>>, "question", <<>>))
         /\ UNCHANGED qres

\* queryRAG: return of a text
Return(value, gs) ==
    /\ qpc' = "done"
    /\ qres' = [kind |-> "returned", value |-> value]
    /\ gens' = gs

\* The generation request the gate of queryRAG leads to
gated(ctxs, q, vdocs) ==
    IF accepted(ctxs, q)
    THEN [request(texts(ctxs), "question", <<>>) EXCEPT !.handed = limitedContext(texts(ctxs))]
    ELSE IF isResumeQuery(q) THEN request(<<>>, "extractPrompt", vdocs)
    ELSE request(<<>>, "question", <<>>)

\* queryRAG, normal path: getEmbedding(question) resolves; the search, the
\* ranking and the gate, and on to the generation request of the branch taken.
EmbedResolve(resp, prof, shape) ==
    /\ qpc = "embedding"
    /\ Answered(resp)
    /\ LET vec == getEmbedding(question, resp)
           searchK == Min(DefaultK * 2, Len(validDocs))
           r == search(index, vec.len, searchK, prof)
           ctxs == selectContexts(seenHits(r.hits, shape), validDocs, DefaultK)
       IN /\ qlog' = Append(qlog, searchEvent("question", searchK, r.threw))
          /\ found' = r.hits
          /\ IF r.threw
             THEN /\ OuterCatch([timedOut |-> FALSE], gens)
                  /\ UNCHANGED contexts
             ELSE IF r.hits = <<>> \/ ctxs = <<>>
             THEN /\ qpc' = "generalGenerating"
                  /\ gens' = Append(gens, request(<<>>, "question", <<>>))
                  /\ UNCHANGED <<contexts, qres>>
             ELSE /\ contexts' = ctxs
                  /\ gens' = Append(gens, gated(ctxs, question, validDocs))
                  /\ qpc' = IF accepted(ctxs, question) THEN "contextGenerating"
                            ELSE IF isResumeQuery(question) THEN "extractGenerating"
                            ELSE "generalGenerating"
                  /\ UNCHANGED qres
    /\ UNCHANGED <<question, calledAt, batch>>
    /\ UNCHANGED ivars
    /\ UNCHANGED fvars

\* queryRAG: return await generateResponse("", question) settles, on the paths
\* without hits or with rejected context
GeneralGenResolve(resp) ==
    /\ qpc = "generalGenerating"
    /\ answers(gens[Len(gens)], resp)
    /\ LET r == generateResponse(<<>>, "question", resp)
       IN IF r.threw
          THEN OuterCatch([timedOut |-> FALSE], settle(gens, resp, r))
          ELSE Return(r.value, settle(gens, resp, r))
    /\ UNCHANGED <<question, contexts, found, qlog, calledAt, faults, batch>>
    /\ UNCHANGED ivars
    /\ UNCHANGED fvars

\* queryRAG: return await generateResponse("", extractPrompt) settles; its own
\* catch returns a sentence
ExtractGenResolve(resp) ==
    /\ qpc = "extractGenerating"
    /\ answers(gens[Len(gens)], resp)
    /\ LET r == generateResponse(<<>>, "extractPrompt", resp)
       IN Return(IF r.threw THEN ResumeTrouble ELSE r.value, settle(gens, resp, r))
    /\ UNCHANGED <<question, contexts, found, qlog, calledAt, faults, batch>>
    /\ UNCHANGED ivars
    /\ UNCHANGED fvars

\* queryRAG: generateResponse(limitedContext, question) settles before the timer
\* of the race.  An error of it is no time-out: it is rethrown to the outer catch.
ContextGenResolve(resp) ==
    /\ qpc = "contextGenerating"
    /\ answers(gens[Len(gens)], resp)
    /\ LET r == generateResponse(texts(contexts), "question", resp)
       IN IF r.threw
          THEN OuterCatch([timedOut |-> FALSE], settle(gens, resp, r))
          ELSE Return(r.value, settle(gens, resp, r))
    /\ UNCHANGED <<question, contexts, found, qlog, calledAt, faults, batch>>
    /\ UNCHANGED ivars
    /\ UNCHANGED fvars

\* queryRAG: the 30 s timer of the race rejects first, generateResponse having
\* not settled.  The timer of generateResponse was armed before it with the same
\* delay, so the race timer comes first only once clearTimeout has run.  With
\* several contexts the catch retries with the best one; with one it rethrows the
\* time-out to the outer catch.
RaceTimeout ==
    /\ qpc = "contextGenerating"
    /\ gens[Len(gens)].resp.kind \in {"headers", "stalled"}
    /\ LET gs == settle(gens, [kind |-> "raced", body |-> <<>>], gens[Len(gens)].result)
       IN IF Len(contexts) > 1
          THEN /\ qpc' = "retryGenerating"
               /\ gens' = Append(gs, request(<<contexts[1].text>>, "question", <<>>))
               /\ UNCHANGED qres
          ELSE OuterCatch([timedOut |-> TRUE], gs)
    /\ UNCHANGED <<question, contexts, found, qlog, calledAt, faults, batch>>
    /\ UNCHANGED ivars
    /\ UNCHANGED fvars

\* queryRAG: return await generateResponse(contexts[0].text, question) settles;
\* an error of it is logged and the time-out rethrown to the outer catch
RetryGenResolve(resp) ==
    /\ qpc = "retryGenerating"
    /\ answers(gens[Len(gens)], resp)
    /\ LET r == generateResponse(<<contexts[1].text>>, "question", resp)
       IN IF r.threw
          THEN OuterCatch([timedOut |-> TRUE], settle(gens, resp, r))
          ELSE Return(r.value, settle(gens, resp, r))
    /\ UNCHANGED <<question, contexts, found, qlog, calledAt, faults, batch>>
    /\ UNCHANGED ivars
    /\ UNCHANGED fvars

\* queryRAG, outer catch: return await generateResponse("", question) settles;
\* its own catch returns a sentence
FallbackGenResolve(resp) ==
    /\ qpc = "fallbackGenerating"
    /\ answers(gens[Len(gens)], resp)
    /\ LET r == generateResponse(<<>>, "question", resp)
       IN Return(IF r.threw THEN TroubleApology ELSE r.value, settle(gens, resp, r))
    /\ UNCHANGED <<question, contexts, found, qlog, calledAt, faults, batch>>
    /\ UNCHANGED ivars
    /\ UNCHANGED fvars

Generating ==
    {"skillsGenerating", "generalGenerating", "extractGenerating",
     "contextGenerating", "retryGenerating", "fallbackGenerating"}

\* generateResponse: await fetch(...) resolves with a response and
\* clearTimeout(timeoutId) runs; the body is still to be read.  stalls tells
\* whether the provider will never complete it.
GenHeaders(stalls) ==
    /\ qpc \in Generating
    /\ gens[Len(gens)].resp.kind = "pending"
    /\ gens' = [gens EXCEPT ![Len(gens)].resp.kind =
                                IF stalls THEN "stalled" ELSE "headers"]
    /\ UNCHANGED <<qpc, question, contexts, found, qlog, qres, calledAt, faults, batch>>
    /\ UNCHANGED ivars
    /\ UNCHANGED fvars

\* Mutant of QueryRAG_End: the call releases the chunks it read when it ends.
QueryRAG_EndReleasing ==
    /\ qpc = "done"
    /\ qpc' = "idle"
    /\ question' = <<>>
    /\ contexts' = <<>>
    /\ found' = <<>>
    /\ gens' = <<>>
    /\ qlog' = <<>>
    /\ qres' = NoResult
    /\ calledAt' = "idle"
    /\ validDocs' = SubSeq(validDocs, 1, Len(validDocs) - Len(contexts))
    /\ UNCHANGED <<files, docs, embeddings, index, ipc, boot>>
    /\ UNCHANGED <<faults, batch>>
    /\ UNCHANGED fvars

\* The caller has its answer or its error; the next call can start.
QueryRAG_End ==
    /\ qpc = "done"
    /\ qpc' = "idle"
    /\ question' = <<>>
    /\ contexts' = <<>>
    /\ found' = <<>>
    /\ gens' = <<>>
    /\ qlog' = <<>>
    /\ qres' = NoResult
    /\ calledAt' = "idle"
    /\ UNCHANGED <<faults, batch>>
    /\ UNCHANGED ivars
    /\ UNCHANGED fvars

Next ==
    \/ InitRAG_Start
    \/ \E j \in 1..batchSize, resp \in EmbedResponses : InitRAG_Embed(j, resp)
    \/ \E q \in Questions : QueryRAG_Start(q)
    \/ \E resp \in EmbedResponses, prof \in Profiles, shape \in Shapes :
          SkillsEmbedResolve(resp, prof, shape)
    \/ \E resp \in GenResponses : SkillsGenResolve(resp)
    \/ \E resp \in EmbedResponses, prof \in Profiles, shape \in Shapes :
          EmbedResolve(resp, prof, shape)
    \/ \E resp \in GenResponses : GeneralGenResolve(resp)
    \/ \E resp \in GenResponses : ExtractGenResolve(resp)
    \/ \E resp \in GenResponses : ContextGenResolve(resp)
    \/ \E stalls \in BOOLEAN : GenHeaders(stalls)
    \/ RaceTimeout
    \/ \E resp \in GenResponses : RetryGenResolve(resp)
    \/ \E resp \in GenResponses : FallbackGenResolve(resp)
    \/ QueryRAG_End

Spec == Init /\ [][Next]_vars

\* The same program when the steps the code's scheduling guarantees for a
\* generation request are taken in the end: the request settles while its timer
\* is armed or its provider answers (a provider whose body never comes,
\* GenHeaders with stalls, settles nothing), the race timer fires, and the
\* caller takes its answer.
LiveSpec ==
    /\ Init
    /\ [][Next]_vars
    /\ WF_vars(\E resp \in GenResponses : SkillsGenResolve(resp))
    /\ WF_vars(\E resp \in GenResponses : GeneralGenResolve(resp))
    /\ WF_vars(\E resp \in GenResponses : ExtractGenResolve(resp))
    /\ WF_vars(\E resp \in GenResponses : ContextGenResolve(resp))
    /\ WF_vars(RaceTimeout)
    /\ WF_vars(\E resp \in GenResponses : RetryGenResolve(resp))
    /\ WF_vars(\E resp \in GenResponses : FallbackGenResolve(resp))
    /\ WF_vars(QueryRAG_End)

(* ------------------------- initRAG, in batches ------------------------- *)
\* Data directories whose one document yields more chunks than a batch holds
BatchDirs == { <<[kind |-> "doc", n |-> n]>> : n \in (batchSize + 1)..MaxBatchDocs }

InitBatch ==
    /\ files \in BatchDirs
    /\ InitEngine
    /\ InitPure

\* initRAG alone, from its call to its end
BatchNext ==
    \/ InitRAG_Start
    \/ \E j \in 1..batchSize, resp \in EmbedResponses : InitRAG_Embed(j, resp)

BatchSpec == InitBatch /\ [][BatchNext]_vars

(* ------------------------- two calls of queryRAG ----------------------- *)
\* The handlers of bot.js await queryRAG without waiting for one another: a
\* second call can start and run while the first is suspended at an await.  The
\* event loop resumes the other call: the running one is suspended where it is.
Yield ==
    /\ qpc' = parked.qpc
    /\ question' = parked.question
    /\ contexts' = parked.contexts
    /\ found' = parked.found
    /\ gens' = parked.gens
    /\ qlog' = parked.qlog
    /\ qres' = parked.qres
    /\ calledAt' = parked.calledAt
    /\ parked' = [qpc |-> qpc, question |-> question, contexts |-> contexts,
                  found |-> found, gens |-> gens, qlog |-> qlog, qres |-> qres,
                  calledAt |-> calledAt]
    /\ UNCHANGED <<faults, batch>>
    /\ UNCHANGED ivars
    /\ UNCHANGED <<chunkInput, chunkOutput, calls, window>>

\* The documents, questions and answers of the runs with two calls
ConcDirs == { <<[kind |-> "doc", n |-> n]>> : n \in 1..MaxConcChunks }
ConcQuestions == { <<"H","i">>, <<"M","y"," ","C","V">> }
ConcProfiles == [base : {5, 24}, gap : {2}, rot : {0}]
ConcGenResponses ==
    { [kind |-> "text", body |-> <<" ", "a", "\n">>] }
    \cup { [kind |-> k, body |-> <<>>] : k \in {"http", "abort"} }

InitConc ==
    /\ files \in ConcDirs
    /\ InitEngine
    /\ InitPure

ConcNext ==
    \/ InitRAG_Start
    \/ \E j \in 1..batchSize, resp \in EmbedResponses : InitRAG_Embed(j, resp)
    \/ \E q \in ConcQuestions : QueryRAG_Start(q)
    \/ \E resp \in {"vector", "http"}, prof \in ConcProfiles, shape \in Shapes :
          EmbedResolve(resp, prof, shape)
    \/ \E resp \in ConcGenResponses : GeneralGenResolve(resp)
    \/ \E resp \in ConcGenResponses : ExtractGenResolve(resp)
    \/ \E resp \in ConcGenResponses : ContextGenResolve(resp)
    \/ \E stalls \in BOOLEAN : GenHeaders(stalls)
    \/ RaceTimeout
    \/ \E resp \in ConcGenResponses : RetryGenResolve(resp)
    \/ \E resp \in ConcGenResponses : FallbackGenResolve(resp)
    \/ QueryRAG_End
    \/ Yield

ConcSpec == InitConc /\ [][ConcNext]_vars

(* ------------------------------ chunkText ------------------------------ *)
\* A text is a sequence of runs [c, n]: the character c, n times.  A position
\* is an index of the string, from 0.
Max(a, b) == IF a > b THEN a ELSE b

RECURSIVE lengthOf(_)
lengthOf(t) == IF t = <<>> THEN 0 ELSE Head(t).n + lengthOf(Tail(t))

runStart(t, r) == lengthOf(SubSeq(t, 1, r - 1))
runEnd(t, r) == lengthOf(SubSeq(t, 1, r))

\* String.prototype.indexOf(ch, from): the first position from `from` on that
\* holds ch, -1 without one
indexOf(t, ch, from) ==
    LET rs == { r \in 1..Len(t) : t[r].c = ch /\ runEnd(t, r) > from }
    IN IF rs = {} THEN -1
       ELSE Max(from, runStart(t, CHOOSE r \in rs : \A q \in rs : r <= q))

\* text.substring(start, end).trim(): the span [from, to) of text it keeps, the
\* empty span at start when the substring is blank
trimmedSpan(t, start, end) ==
    LET e == Min(end, lengthOf(t))
        rs == { r \in 1..Len(t) :
                  ~IsSpace(t[r].c) /\ runEnd(t, r) > start /\ runStart(t, r) < e }
    IN IF rs = {} THEN [from |-> start, to |-> start]
       ELSE [from |-> Max(start, runStart(t, CHOOSE r \in rs : \A q \in rs : r <= q)),
             to |-> Min(e, runEnd(t, CHOOSE r \in rs : \A q \in rs : r >= q))]

\* Mutant of windowEnd: <= for < in the tests of the distance.
windowEndInclusive(t, chunkSize, start) ==
    LET end0 == start + chunkSize
        nextPeriod == indexOf(t, ".", end0)
        nextNewline == indexOf(t, "\n", end0)
    IN IF ~(end0 < lengthOf(t)) THEN end0
       ELSE IF nextPeriod # -1 /\ nextPeriod - end0 <= BreakWindow
       THEN nextPeriod + 1
       ELSE IF nextNewline # -1 /\ nextNewline - end0 <= BreakWindow
       THEN nextNewline + 1
       ELSE end0

\* chunkText: the value of end when the chunk of an iteration is pushed
windowEnd(t, chunkSize, start) ==
    LET end0 == start + chunkSize
        nextPeriod == indexOf(t, ".", end0)
        nextNewline == indexOf(t, "\n", end0)
    IN IF ~(end0 < lengthOf(t)) THEN end0
       ELSE IF nextPeriod # -1 /\ nextPeriod - end0 < BreakWindow
       THEN nextPeriod + 1
       ELSE IF nextNewline # -1 /\ nextNewline - end0 < BreakWindow
       THEN nextNewline + 1
       ELSE end0

\* chunkText: the while loop, from the value start has at the top of an
\* iteration.  A chunk is recorded with the start and end of its iteration and
\* the span its text keeps.
RECURSIVE chunkLoop(_, _, _, _, _)
chunkLoop(t, chunkSize, overlap, start, cs) ==
    IF ~(start < lengthOf(t)) THEN cs
    ELSE LET end == windowEnd(t, chunkSize, start)
             span == trimmedSpan(t, start, end)
             pushed == Append(cs, [start |-> start, end |-> end,
                                   from |-> span.from, to |-> span.to])
         IN IF end - overlap >= lengthOf(t) THEN pushed
            ELSE chunkLoop(t, chunkSize, overlap, end - overlap, pushed)

\* Mutant of chunkText: start = end + overlap.
chunkTextSkipping(t, chunkSize, overlap) == chunkLoop(t, chunkSize, 0 - overlap, 0, <<>>)

\* Mutant of chunkText: start = end - overlap - 1.
chunkTextWider(t, chunkSize, overlap) == chunkLoop(t, chunkSize, overlap + 1, 0, <<>>)

\* chunkText(text, chunkSize, overlap)
chunkText(t, chunkSize, overlap) == chunkLoop(t, chunkSize, overlap, 0, <<>>)

\* The texts given to chunkText: up to MaxRuns runs of letters, blanks, periods
\* and newlines, of lengths around the chunk size, the overlap and the window.
RunLens == {1, 100, 200, 900, 1050}
Runs == [c : {"a", " ", ".", "\n"}, n : RunLens]
Texts == UNION { [1..m -> Runs] : m \in 0..MaxRuns }

evars == <<ivars, qvars, batch, faults, parked>>

InitChunk ==
    /\ files = <<>>
    /\ InitEngine
    /\ chunkInput \in Texts
    /\ chunkOutput = [done |-> FALSE, chunks |-> <<>>]
    /\ calls = <<>>
    /\ window = DefaultWindow

\* A caller calls chunkText(text) with the default size and overlap.
ChunkText ==
    /\ ~chunkOutput.done
    /\ chunkOutput' = [done |-> TRUE,
                       chunks |-> chunkText(chunkInput, DefaultChunkSize, DefaultOverlap)]
    /\ UNCHANGED <<chunkInput, calls, window>>
    /\ UNCHANGED evars

ChunkNext == ChunkText

ChunkSpec == InitChunk /\ [][ChunkNext]_vars

(* ---------------------- chunkText, step by step ------------------------ *)
\* The calls chunkText(text, chunkSize, overlap) followed through their loop:
\* short texts, every positive size and every overlap up to MaxSize + 1.
ShortRuns == [c : {"a", ".", " "}, n : 1..MaxShortRun]
ShortTexts == UNION { [1..m -> ShortRuns] : m \in 0..2 }
Windows == [chunkSize : 1..MaxSize, overlap : 0..(MaxSize + 1), start : {0}]

InitLoop ==
    /\ files = <<>>
    /\ InitEngine
    /\ chunkInput \in ShortTexts
    /\ chunkOutput = [done |-> FALSE, chunks |-> <<>>]
    /\ calls = <<>>
    /\ window \in Windows

\* chunkText: the test of the while loop and one iteration of it, to the next
\* test; the function returns when the test fails and when the iteration breaks.
\* An iteration is followed as long as fewer than MaxIterations chunks are pushed.
ChunkIterate ==
    /\ ~chunkOutput.done
    /\ Len(chunkOutput.chunks) < MaxIterations
    /\ IF ~(window.start < lengthOf(chunkInput))
       THEN /\ chunkOutput' = [chunkOutput EXCEPT !.done = TRUE]
            /\ UNCHANGED window
       ELSE LET end == windowEnd(chunkInput, window.chunkSize, window.start)
                span == trimmedSpan(chunkInput, window.start, end)
            IN /\ chunkOutput' =
                    [done |-> end - window.overlap >= lengthOf(chunkInput),
                     chunks |-> Append(chunkOutput.chunks,
                                       [start |-> window.start, end |-> end,
                                        from |-> span.from, to |-> span.to])]
               /\ window' = [window EXCEPT !.start = end - window.overlap]
    /\ UNCHANGED <<chunkInput, calls>>
    /\ UNCHANGED evars

LoopNext == ChunkIterate

LoopSpec == InitLoop /\ [][LoopNext]_vars

(* ------------------------ fallbackEmbeddingSync ------------------------ *)
\* crypto.createHash("sha256").update(text + "|" + counter).digest(): DigestLen
\* bytes that depend on the text and the counter alone.  The digest is stood for
\* by a fixed arithmetic mix of the two.
sha256(text, counter) ==
    [b \in 1..DigestLen |-> (text * 89 + counter * 151 + b * b * 37 + b * 11) % (ByteMax + 1)]

\* (h[b] / 255.0) * 2 - 1, in 255ths: byte 0 gives -255 (-1.0), byte 255 gives
\* 255 (1.0)
floatOf(byte) == 2 * byte - ByteMax

\* floats[i] = v; writing at floats.length lengthens the array
setAt(fl, i, v) == IF i < Len(fl) THEN [fl EXCEPT ![i + 1] = v] ELSE Append(fl, v)

\* Mutant of forBytes: the test i < dim is missing.
RECURSIVE forBytesUnguarded(_, _, _, _, _)
forBytesUnguarded(h, dim, fl, i, b) ==
    IF b < Len(h)
    THEN forBytesUnguarded(h, dim, setAt(fl, i, floatOf(h[b + 1])), i + 1, b + 1)
    ELSE [floats |-> fl, i |-> i]

\* for (let b = 0; b < h.length && i < dim; b++) floats[i++] = ...
RECURSIVE forBytes(_, _, _, _, _)
forBytes(h, dim, fl, i, b) ==
    IF b < Len(h) /\ i < dim
    THEN forBytes(h, dim, setAt(fl, i, floatOf(h[b + 1])), i + 1, b + 1)
    ELSE [floats |-> fl, i |-> i]

\* while (i < dim) { h = sha256(text|counter); for ...; counter++ }
RECURSIVE whileFill(_, _, _, _, _)
whileFill(text, dim, fl, i, counter) ==
    IF ~(i < dim) THEN fl
    ELSE LET r == forBytes(sha256(text, counter), dim, fl, i, 0)
         IN whileFill(text, dim, r.floats, r.i, counter + 1)

\* Mutant of floats: counter is kept between the calls.
floatsCarried(text, dim) == whileFill(text, dim, [k \in 1..dim |-> 0], 0, Len(calls))

\* fallbackEmbeddingSync(text, dim): the array floats it returns, of which
\* the operator fallbackEmbeddingSync above keeps the length
floats(text, dim) == whileFill(text, dim, [k \in 1..dim |-> 0], 0, 0)

FallbackTexts == {1, 2}

\* The dims of the calls: none, one component, around one digest, two digests,
\* and MaxDim
Dims == {0, 1, DigestLen - 1, DigestLen, DigestLen + 1, 2 * DigestLen, MaxDim}

InitFallback ==
    /\ files = <<>>
    /\ InitEngine
    /\ chunkInput = <<>>
    /\ chunkOutput = [done |-> FALSE, chunks |-> <<>>]
    /\ calls = <<>>
    /\ window = DefaultWindow

\* A caller calls fallbackEmbeddingSync(text, dim); the call before it is kept
\* beside it.
FallbackCall(text, dim) ==
    /\ calls' = (IF calls = <<>> THEN <<>> ELSE <<calls[Len(calls)]>>)
                 \o <<[text |-> text, dim |-> dim, result |-> floats(text, dim)]>>
    /\ UNCHANGED <<chunkInput, chunkOutput, window>>
    /\ UNCHANGED evars

FallbackNext == \E text \in FallbackTexts, dim \in Dims : FallbackCall(text, dim)

FallbackSpec == InitFallback /\ [][FallbackNext]_vars

(* ------------------------------- claims -------------------------------- *)
Apologies == {GenApology, TooLongApology, TroubleApology, ResumeTrouble}

InFlight(g) == g.resp.kind \in {"pending", "headers", "stalled", "raced"}
Settled(g) == ~InFlight(g)
TimedOut(g) == g.resp.kind \in {"abort", "raced"}
Succeeded(g) == g.resp.kind = "text" /\ g.resp.body # <<>>

ThrewNotInitialized ==
    /\ qres = [kind |-> "threw", value |-> NotInitialized]
    /\ qlog = <<>>
    /\ gens = <<>>

\* C1: a queryRAG call made after initRAG returned at its end (the index built)
\* that is over has returned a text to its caller; it has not thrown, whatever
\* the embedding provider, the search and the generation provider did.
C1_QueryNeverThrows ==
    (qpc = "done" /\ calledAt = "returned") => qres.kind = "returned"

\* A query on a built index whose search threw and whose generation request
\* then timed out is over.
C1_Witness ==
    /\ qpc = "done"
    /\ calledAt = "returned"
    /\ \E i \in 1..Len(qlog) : qlog[i].op = "search" /\ qlog[i].threw
    /\ gens # <<>>
    /\ gens[Len(gens)].resp.kind = "abort"
    /\ qres.kind = "returned"

\* C2: a queryRAG call made while no initRAG call has returned at its end
\* (initRAG not called, in progress, returned without an index, or thrown) throws
\* the not-initialized error and issues no embedding, search or generation
\* request.
C2_NotInitializedUnlessBuilt ==
    (qpc # "idle" /\ calledAt # "returned") => ThrewNotInitialized

\* C3: generateResponse never rejects; it resolves to the trimmed response text
\* when the provider answers 2xx with a non-empty string response, and to the
\* fixed apology on every other answer (transport error, abort by the timer,
\* non-2xx status, unparsable body, missing, empty or non-string response).
IsTrimOf(v, b) ==
    /\ \E i \in 1..(Len(b) + 1) : \E j \in 0..Len(b) :
          /\ SubSeq(b, i, j) = v
          /\ \A n \in 1..Len(b) : (n < i \/ n > j) => IsSpace(b[n])
    /\ v = <<>> \/ (~IsSpace(v[1]) /\ ~IsSpace(v[Len(v)]))

C3_GenerateNeverThrows ==
    \A i \in 1..Len(gens) :
        Settled(gens[i]) =>
            /\ ~gens[i].result.threw
            /\ IF Succeeded(gens[i])
               THEN IsTrimOf(gens[i].result.value, gens[i].resp.body)
               ELSE gens[i].result.value = GenApology

\* A generation request was aborted by the timer and generateResponse resolved.
C3_Witness ==
    \E i \in 1..Len(gens) :
        gens[i].resp.kind = "abort" /\ gens[i].result.value = GenApology

\* C4: when the last generation request of a query timed out, the answer of
\* queryRAG is a fixed apology string, on every path.
C4_TimeoutGivesApology ==
    (qpc = "done" /\ gens # <<>> /\ TimedOut(gens[Len(gens)]))
        => (qres.kind = "returned" /\ qres.value \in Apologies)

\* C5: on the path with accepted context, a first generation attempt that times
\* out with more than one chunk selected is followed by exactly one retry whose
\* context is the best-ranked chunk alone; a failed retry, a failure with one
\* chunk selected and a failure that is no time-out end the query with a fixed
\* apology string and no further generation request.
C5_FallbackChain ==
    (qpc = "done" /\ gens # <<>> /\ gens[1].context # <<>>) =>
        /\ (TimedOut(gens[1]) /\ Len(contexts) > 1) =>
              /\ Len(gens) = 2
              /\ gens[2].context = <<contexts[1].text>>
              /\ ~Succeeded(gens[2]) => qres.value \in Apologies
        /\ (~Succeeded(gens[1]) /\ ~(TimedOut(gens[1]) /\ Len(contexts) > 1)) =>
              /\ Len(gens) = 1
              /\ qres.value \in Apologies

\* C6: every vector getEmbedding returned is full-length: the provider's vector
\* of ProviderDim numbers, or the fallback vector fallbackEmbeddingSync(text, 768).
FullLength(v) ==
    \/ v.origin = "provider" /\ v.len = ProviderDim
    \/ v = fallbackEmbeddingSync(<<>>, FallbackDim)

C6_EmbeddingFullLength ==
    /\ \A i \in 1..Len(embeddings) : FullLength(embeddings[i])
    /\ \A i \in 1..Len(batch) : batch[i] # Pending => FullLength(batch[i])

\* C7: initRAG returns normally only with at least one valid (chunk, embedding)
\* pair; with none it throws and the bootstrap exits.
C7_ZeroValidThrows ==
    /\ ipc \in {"returned", "returnedEarly"} => validDocs # <<>>
    /\ ipc = "threw" => boot = "exited"

\* C7, amended: an initRAG that found a .txt file returns normally only with at
\* least one valid (chunk, embedding) pair, and with none it throws and the
\* bootstrap exits; an initRAG that found no .txt file returns normally with no
\* chunk and no index.
C7_ZeroValidThrowsUnlessNoTxt ==
    /\ ipc = "returned" =>
          /\ validPositions(embeddings) # {}
          /\ validDocs # <<>>
          /\ index.exists
    /\ ipc = "threw" => boot = "exited"
    /\ ipc = "returnedEarly" => (docs = <<>> /\ validDocs = <<>> /\ ~index.exists)

\* initRAG has thrown: there were chunks and every embedding was invalid.
C7_Witness ==
    /\ ipc = "threw"
    /\ docs # <<>>
    /\ Len(embeddings) = Len(docs)
    /\ validPositions(embeddings) = {}
    /\ boot = "exited"

\* C8: with an empty data directory initRAG returns without error, with no valid
\* chunk and no index, the bootstrap goes on, and every queryRAG call made
\* afterwards throws the not-initialized error.
C8_EmptyDirectory ==
    /\ [][(ipc = "idle" /\ ipc' # "idle" /\ files = <<>>) => ipc' = "returnedEarly"]_vars
    /\ [](ipc = "returnedEarly" =>
             (validDocs = <<>> /\ ~index.exists /\ boot = "serving"))
    /\ []((qpc # "idle" /\ calledAt = "returnedEarly") => ThrewNotInitialized)

\* A query made after initRAG returned for want of .txt files has thrown.
C8_Witness ==
    /\ ipc = "returnedEarly"
    /\ calledAt = "returnedEarly"
    /\ qpc = "done"
    /\ qres.kind = "threw"

\* C9: the retrieved context is accepted (the generation request carries it) if
\* and only if the best quality score is at most the threshold, 2.5 for the
\* questions with a resume keyword ("My CV", "SKILLS") and 1.0 for the others;
\* a rejected question without resume keyword is answered by a generation
\* request with empty context and the bare question.
LenientQuestions == { <<"M","y"," ","C","V">>, <<"S","K","I","L","L","S">> }

C9_RelevanceGate ==
    contexts # <<>> =>
        LET best == contexts[1].score
            threshold == IF question \in LenientQuestions THEN 25 ELSE 10
        IN /\ (gens[1].context # <<>>) <=> (best <= threshold)
           /\ (best > threshold /\ question \notin LenientQuestions) =>
                 /\ gens[1].context = <<>>
                 /\ gens[1].prompt = "question"
                 /\ gens[1].inPrompt = <<>>

\* The question "My CV" with best quality score 2.4 has its context accepted.
C9_Witness ==
    /\ question = <<"M","y"," ","C","V">>
    /\ contexts # <<>>
    /\ contexts[1].score = 24
    /\ gens[1].context # <<>>

\* C10: a skills question put to an engine whose initRAG returned at its end is
\* answered by the skills pipeline: one embedding of the canned query, one
\* search with k = 5 that succeeds, and exactly one generation request, with the
\* extraction prompt over the de-duplicated chunks found; the normal path does
\* not run.
SkillsQuestions == { <<"S","K","I","L","L","S">>, <<"T","o","o","l","s">> }

C10_SkillsPipeline ==
    (qpc = "done" /\ calledAt = "returned" /\ question \in SkillsQuestions) =>
        /\ qlog = <<embedEvent("canned"), searchEvent("canned", 5, FALSE)>>
        /\ Len(gens) = 1
        /\ gens[1].prompt = "skillsPrompt"
        /\ \A i, j \in 1..Len(gens[1].inPrompt) :
              gens[1].inPrompt[i] = gens[1].inPrompt[j] => i = j

\* The first position from p on that no chunk of cs keeps
RECURSIVE reach(_, _)
reach(cs, p) ==
    LET over == { i \in 1..Len(cs) : cs[i].from <= p /\ p < cs[i].to }
    IN IF over = {} THEN p
       ELSE reach(cs, cs[CHOOSE i \in over : \A j \in over : cs[i].to >= cs[j].to].to)

\* Run r of t lies in the chunks of cs, every position of it
RunKept(t, cs, r) == reach(cs, runStart(t, r)) >= runEnd(t, r)

\* C11: with the default size and overlap every character position of the text
\* lies in at least one chunk of chunkText, and consecutive chunks leave no gap,
\* so that the chunks, laid over one another, give the text back.
C11_ChunksCoverText ==
    chunkOutput.done =>
        /\ \A r \in 1..Len(chunkInput) : RunKept(chunkInput, chunkOutput.chunks, r)
        /\ \A i \in 1..(Len(chunkOutput.chunks) - 1) :
              chunkOutput.chunks[i + 1].from <= chunkOutput.chunks[i].to

\* C11, amended: the iterations of chunkText cover the text from its first to
\* its last position, each starting before the end of the one before it, and
\* every position that holds no white space lies in at least one chunk; a
\* chunk is trimmed, so white space at the edges of a chunk's span can lie in
\* no chunk.
C11_ChunksCoverNonBlank ==
    chunkOutput.done =>
        LET cs == chunkOutput.chunks
            len == lengthOf(chunkInput)
        IN /\ len > 0 => (cs # <<>> /\ cs[1].start = 0 /\ cs[Len(cs)].end >= len)
           /\ len = 0 => cs = <<>>
           /\ \A i \in 1..(Len(cs) - 1) :
                 cs[i].start < cs[i + 1].start /\ cs[i + 1].start < cs[i].end
           /\ \A i \in 1..Len(cs) :
                 /\ cs[i].start <= cs[i].from
                 /\ cs[i].from <= cs[i].to
                 /\ cs[i].to <= Min(cs[i].end, len)
           /\ \A r \in 1..Len(chunkInput) :
                 ~IsSpace(chunkInput[r].c) => RunKept(chunkInput, cs, r)

\* chunkText has split a text at a sentence or line break into several chunks
\* and dropped white space at the end of one of them.
C11_Witness ==
    /\ chunkOutput.done
    /\ Len(chunkOutput.chunks) >= 2
    /\ \E i \in 1..Len(chunkOutput.chunks) :
          /\ chunkOutput.chunks[i].end > chunkOutput.chunks[i].start + DefaultChunkSize
          /\ chunkOutput.chunks[i].from < chunkOutput.chunks[i].to
          /\ chunkOutput.chunks[i].to < chunkOutput.chunks[i].end
          /\ chunkOutput.chunks[i].end <= lengthOf(chunkInput)

C13_FallbackShape ==
    \A n \in 1..Len(calls) :
        calls[n].dim > 0 =>
            /\ Len(calls[n].result) = calls[n].dim
            /\ \A k \in 1..Len(calls[n].result) :
                  /\ calls[n].result[k] >= 0 - ByteMax
                  /\ calls[n].result[k] <= ByteMax
                  /\ calls[n].result[k] =
                        floatOf(sha256(calls[n].text, (k - 1) \div DigestLen)
                                    [((k - 1) % DigestLen) + 1])

\* A call whose dim takes three digests, the last one used in part.
C13_Witness ==
    \E n \in 1..Len(calls) :
        /\ calls[n].dim > 2 * DigestLen
        /\ calls[n].dim % DigestLen # 0
        /\ Len(calls[n].result) = calls[n].dim

\* C14: the quality score of a selected candidate is its raw distance plus 0.5
\* when the word count of its chunk is below 5 or above 200, and its raw distance
\* otherwise; of two candidates of equal raw distance, one within 5..200 words
\* and one outside, the one outside has the higher score and the later rank.
OutOfRange(ctx) == ctx.wordCount < 5 \/ ctx.wordCount > 200

C14_QualityScore ==
    /\ \A i \in 1..Len(contexts) :
          contexts[i].score =
              contexts[i].originalScore + (IF OutOfRange(contexts[i]) THEN 5 ELSE 0)
    /\ \A i, j \in 1..Len(contexts) :
          (/\ contexts[i].originalScore = contexts[j].originalScore
           /\ ~OutOfRange(contexts[i])
           /\ OutOfRange(contexts[j]))
              => (contexts[j].score > contexts[i].score /\ i < j)

\* Candidates of equal raw distance are ranked: chunks of 5 and of 200 words
\* before chunks of 4 and of 201 words.
C14_Witness ==
    /\ Len(contexts) >= 4
    /\ \A i, j \in 1..Len(contexts) :
          contexts[i].originalScore = contexts[j].originalScore
    /\ {contexts[1].wordCount, contexts[2].wordCount} = {5, 200}
    /\ {contexts[3].wordCount, contexts[4].wordCount} = {4, 201}

\* C15: after initRAG has returned at its end every valid embedding has the
\* dimension of the index, that of the first valid one; a build over embeddings
\* of differing dimension does not return.
C15_UniformDimension ==
    ipc = "returned" =>
        \A i \in validPositions(embeddings) : embeddings[i].len = index.dim

\* C16: after initRAG has returned at its end the index holds as many vectors as
\* validDocs holds chunks, one per valid embedding, in the order of the chunks,
\* so that a label of search is a position of validDocs.
C16_SlotsMatchChunks ==
    ipc = "returned" =>
        /\ Len(validDocs) = Cardinality(validPositions(embeddings))
        /\ validDocs = keepPositions(docs, validPositions(embeddings), 1)
        /\ index.ntotal = Len(validDocs)

\* C17: initRAG issues its embedding requests in batches of at most 10 chunks: at
\* most 10 requests are in flight, no request of a later batch has been issued
\* while a request of an earlier batch is unresolved, and the index is built only
\* once every request of every batch has resolved.
InFlightChunks == { Len(embeddings) + j : j \in { n \in 1..Len(batch) : batch[n] = Pending } }
IssuedChunks == 1..(Len(embeddings) + Len(batch))
BatchOf(p) == (p - 1) \div 10

C17_SequentialBatches ==
    /\ Cardinality(InFlightChunks) <= 10
    /\ \A p \in InFlightChunks : \A q \in IssuedChunks : BatchOf(q) <= BatchOf(p)
    /\ ipc = "embedding" => (InFlightChunks # {} /\ ~index.exists)
    /\ index.exists => (InFlightChunks = {} /\ Len(embeddings) = Len(docs))

\* The ten requests of the first batch have resolved, the last of them first,
\* and the second batch is in flight.
C17_Witness ==
    /\ ipc = "embedding"
    /\ Len(docs) > 10
    /\ Len(embeddings) = 10
    /\ InFlightChunks # {}
    /\ \A p \in InFlightChunks : p > 10

\* C18: every generation request is under the 30 s timer for as long as it
\* lasts, so every call of generateResponse returns in the end, at whatever stage
\* of its response the provider stalls: a request that is in flight does not
\* stay in flight for ever.
OpenRequest(i) == Len(gens) >= i /\ InFlight(gens[i])

C18_GenerationReturns ==
    \A i \in 1..2 : [](OpenRequest(i) => <>(~OpenRequest(i)))

\* C19: a queryRAG call whose embedding requests have resolved returns in the
\* end: once it waits on a generation request it comes to its return; it issues
\* at most two generation requests, and a retry is followed by no further one.
C19_QueryReturns ==
    /\ [](qpc \in Generating => <>(qpc = "done"))
    /\ [](Len(gens) <= 2)
    /\ [][qpc = "retryGenerating" => qpc' \in {"retryGenerating", "done"}]_vars

\* C20: at most one generation request of a query is in flight at any time; the
\* request the race timer gave up on has been aborted when the retry is issued.
C20_OneRequestInFlight ==
    Cardinality({ i \in 1..Len(gens) : InFlight(gens[i]) }) <= 1

\* The call of queryRAG that is running, as the suspended one is kept
Running ==
    [qpc |-> qpc, question |-> question, contexts |-> contexts, found |-> found,
     gens |-> gens, qlog |-> qlog, qres |-> qres, calledAt |-> calledAt]

\* What a call that runs alone on the engine initRAG left retrieves: the hits of
\* a search for min(2k, N) neighbours, and the contexts ranked from the hits it
\* reads
RetrievedAlone(c) ==
    LET built == buildIndex(docs, embeddings)
        searchK == Min(DefaultK * 2, Len(built.validDocs))
    IN /\ ipc \in {"returned", "threw"}
       /\ \E len \in {ProviderDim, FallbackDim}, prof \in ConcProfiles :
             c.found = search(built.index, len, searchK, prof).hits
       /\ \E shape \in Shapes :
             c.contexts \in {<<>>, selectContexts(seenHits(c.found, shape),
                                                  built.validDocs, DefaultK)}

Candidates == SelectSeq(found, LAMBDA h : h.label >= 0 /\ h.label < Len(validDocs))

\* C22: on the normal path, with k = 5 and N chunks, the search is asked for
\* min(2k, N) candidates and gives as many; the contexts are the candidates with
\* a label in [0, N), ascending by quality score, cut to the first k: at most k,
\* in non-decreasing order of quality score, the first having the least quality
\* score of all the candidates fetched.
C22_RetrieverRanking ==
    found # <<>> =>
        /\ Len(found) = Min(2 * DefaultK, Len(validDocs))
        /\ \E i \in 1..Len(qlog) :
              qlog[i] = searchEvent("question", Min(2 * DefaultK, Len(validDocs)), FALSE)
        /\ Len(contexts) = Min(DefaultK, Len(Candidates))
        /\ \A i \in 1..(Len(contexts) - 1) : contexts[i].score <= contexts[i + 1].score
        /\ \A j \in 1..Len(Candidates) :
              contexts[1].score
                 <= qualityScore(validDocs[Candidates[j].label + 1], Candidates[j].dist)

\* C23: for every text, every positive size and every overlap (overlap >= size
\* included) the loop of chunkText ends with a finite sequence of chunks: start
\* grows from each chunk to the next, so that it never pushes more chunks than
\* the text has characters.
C23_ChunkTextTerminates ==
    LET cs == chunkOutput.chunks
    IN /\ \A i \in 1..(Len(cs) - 1) : cs[i].start < cs[i + 1].start
       /\ Len(cs) <= Max(1, lengthOf(chunkInput))

\* C24: each window of chunkText starts size - overlap characters after the
\* start of the one before, whether or not the end of the one before was moved
\* to a boundary.
C24_FixedStride ==
    LET cs == chunkOutput.chunks
    IN \A i \in 1..(Len(cs) - 1) :
          cs[i + 1].start = cs[i].start + window.chunkSize - window.overlap

\* C24, amended: each window starts overlap characters before the end of the one
\* before: size - overlap characters after its start when that end was not
\* moved, and as many more as the end was moved, at most BreakWindow.
C24_StrideFollowsEnd ==
    LET cs == chunkOutput.chunks
    IN \A i \in 1..(Len(cs) - 1) :
          /\ cs[i + 1].start = cs[i].end - window.overlap
          /\ cs[i].end >= cs[i].start + window.chunkSize
          /\ cs[i].end <= cs[i].start + window.chunkSize + BreakWindow

\* chunkText has returned chunks of which one follows a window whose end was
\* moved and one a window whose end was not.
C24_Witness ==
    LET cs == chunkOutput.chunks
    IN /\ chunkOutput.done
       /\ \E i \in 1..(Len(cs) - 1) : cs[i].end > cs[i].start + window.chunkSize
       /\ \E i \in 1..(Len(cs) - 1) : cs[i].end = cs[i].start + window.chunkSize

\* The positions of the lookahead of a window whose raw end is raw that hold ch
Ahead(t, ch, raw) ==
    UNION { Max(raw, runStart(t, r))..Min(raw + BreakWindow - 1, runEnd(t, r) - 1) :
              r \in { q \in 1..Len(t) : t[q].c = ch } }

Least(ps) == CHOOSE p \in ps : \A q \in ps : p <= q

\* C25: a chunk whose raw end start + size lies before the end of the text ends
\* just after the nearest period or newline at or after the raw end, whichever
\* comes first, when it lies less than 100 characters after the raw end, and at
\* the raw end when there is neither.
C25_NearestBoundary ==
    LET t == chunkInput
        cs == chunkOutput.chunks
    IN \A i \in 1..Len(cs) :
          LET raw == cs[i].start + window.chunkSize
              bs == Ahead(t, ".", raw) \cup Ahead(t, "\n", raw)
          IN raw < lengthOf(t) =>
                cs[i].end = IF bs # {} THEN Least(bs) + 1 ELSE raw

\* C25, amended: such a chunk ends just after the first period at or after the
\* raw end when that period lies less than 100 characters after it; otherwise
\* just after the first newline when that newline does; otherwise at the raw
\* end.  A period in the lookahead is taken even when a newline comes before it.
C25_PeriodBeforeNewline ==
    LET t == chunkInput
        cs == chunkOutput.chunks
    IN \A i \in 1..Len(cs) :
          LET raw == cs[i].start + window.chunkSize
              ps == Ahead(t, ".", raw)
              ns == Ahead(t, "\n", raw)
          IN raw < lengthOf(t) =>
                cs[i].end = IF ps # {} THEN Least(ps) + 1
                            ELSE IF ns # {} THEN Least(ns) + 1
                            ELSE raw

\* chunkText has returned a chunk that ends after a period although a newline
\* comes before it in the lookahead.
C25_Witness ==
    LET t == chunkInput
        cs == chunkOutput.chunks
    IN /\ chunkOutput.done
       /\ \E i \in 1..Len(cs) :
             LET raw == cs[i].start + window.chunkSize
                 ps == Ahead(t, ".", raw)
                 ns == Ahead(t, "\n", raw)
             IN /\ raw < lengthOf(t)
                /\ ps # {} /\ ns # {}
                /\ Least(ns) < Least(ps)
                /\ cs[i].end = Least(ps) + 1

\* C26: every non-empty context a query hands to generateResponse, on the first
\* attempt and on the retry with the best chunk alone, holds at most 800
\* characters of document text, beside the truncation marker.
C26_ContextBudget ==
    \A i \in 1..Len(gens) :
        gens[i].context # <<>> => gens[i].handed.chars <= maxContextLength

\* Request i of the query carries the context the assembler made of the ranked
\* chunks (the retry, which follows a request the race gave up on, does not).
Assembled(i) ==
    /\ gens[i].context # <<>>
    /\ i = 1 \/ gens[i - 1].resp.kind # "raced"

\* The chunks ts hold the first chunk of a file initRAG wrapped in its markers.
FromWrapped(ts) == \E j \in 1..Len(ts) : includes(chunkHead(ts[j]), ResumeStart)

\* C27: a context assembled from chunks of a document initRAG wrapped in its
\* markers is recognized as a resume: when the joined text exceeds 800
\* characters the context is its first 400 characters, the middle marker and its
\* last 400 characters, not its head alone.
C27_ResumeKeepsBothEnds ==
    \A i \in 1..Len(gens) :
        (Assembled(i) /\ FromWrapped(gens[i].context)
           /\ joinedLength(gens[i].context) > maxContextLength)
        => gens[i].handed = [chars |-> 400 + 400, marker |-> "middle"]

====
